---- MODULE Spec2Model ----
(***************************************************************************)
(* A model of src/src/swaps/SwapsController.ts: the currency-rate slice    *)
(* with its thunks (poll, start, stop, updateCurrency), the swaps          *)
(* controller's quote polling, and the best-quote computation.             *)
(***************************************************************************)
EXTENDS Integers, Sequences, FiniteSets, TLC

(***************************************************************************)
(* Bounds of the model.                                                    *)
(***************************************************************************)
\* how many polling intervals the clock runs for
MaxTicks == 1
\* how many exchange-rate fetches (polls and updates together) are issued
MaxFetches == 4
\* how many updateCurrency calls are made
MaxUpdates == 2

(***************************************************************************)
(* Program constants and JavaScript's special values.                      *)
(***************************************************************************)
POLLING_INTERVAL == 180000

\* pollingStartTime / updateStartTime hold a Date.now() reading or undefined;
\* Date.now() is never negative, so -1 stands for undefined.
UndefinedTime == -1

Undefined == "undefined"
Null == "null"

\* JavaScript truthiness of a string | null | undefined value
Truthy(v) == v \notin {Undefined, Null, ""}

\* what updateCurrency is called with: a currency to switch to, or none
CurrentArgs == {Undefined, "eur"}
NativeArgs == {Undefined, "BNB"}

\* The exchange-rate API's answer to the fetch issued as the seq-th one.  The
\* code only stores the rate, so each fetch is given a rate of its own: the
\* stored conversionRate then tells whose answer it is.
fetchExchangeRate(seq) == seq

VARIABLES
    now,          \* Date.now()
    state,        \* the CurrencyRateController slice of the store
    polls,        \* poll() invocations awaiting fetchExchangeRate
    updates,      \* updateCurrency() invocations awaiting fetchExchangeRate
    intervals,    \* live setInterval handles created by start()
    fetchCount,   \* fetches issued so far; a fetch's seq is its issue order
    updateCount,  \* updateCurrency calls made so far
    last          \* the step just taken, as its caller observes it

currencyVars == <<state, polls, updates, intervals, fetchCount,
                  updateCount, last>>

VARIABLES
    swapsState,   \* SwapsController's state
    handle,       \* this.handle: 0 while undefined, else the id of a timeout
    timers,       \* the timeouts that are scheduled and not cleared
    timerCount,   \* setTimeout calls so far; a timeout's id is its order
    swapsLast     \* the SwapsController step just taken

swapsVars == <<swapsState, handle, timers, timerCount, swapsLast>>

VARIABLES
    quoteCall     \* the last getBestQuoteAndEthValues call: arguments, outcome

vars == <<now, currencyVars, swapsVars, quoteCall>>

(***************************************************************************)
(* The slice: initial state, action creators, reducers.                    *)
(***************************************************************************)
initialState ==
    [conversionDate |-> 0,
     conversionRate |-> 0,
     currentCurrency |-> "usd",
     nativeCurrency |-> "ETH",
     pendingCurrentCurrency |-> Null,
     pendingNativeCurrency |-> Null,
     pollingStartTime |-> UndefinedTime,
     updateStartTime |-> UndefinedTime]

\* what a dispatch of no action at all is given
NoAction == [type |-> Undefined, payload |-> Undefined]

pollingStarted(pollingStartTime) ==
    [type |-> "pollingStarted", payload |-> pollingStartTime]
pollingStopped == [type |-> "pollingStopped", payload |-> Undefined]
pollFinished(conversionRate) ==
    [type |-> "pollFinished", payload |-> conversionRate]
updateCurrencyStarted(currentCurrency, nativeCurrency, updateStartTime) ==
    [type |-> "updateCurrencyStarted",
     payload |-> [currentCurrency |-> currentCurrency,
                  nativeCurrency |-> nativeCurrency,
                  updateStartTime |-> updateStartTime]]
updateCurrencyFailed == [type |-> "updateCurrencyFailed", payload |-> Undefined]
updateCurrencyFinished(conversionRate) ==
    [type |-> "updateCurrencyFinished", payload |-> conversionRate]

pollingStartedReducer(s, payload) ==
    [s EXCEPT !.pollingStartTime = payload]

pollingStoppedReducer(s) ==
    [s EXCEPT !.pollingStartTime = UndefinedTime]

pollFinishedReducer(s, payload, dateNow) ==
    [s EXCEPT !.conversionDate = dateNow, !.conversionRate = payload]

updateCurrencyStartedReducer(s, payload) ==
    LET s1 == IF Truthy(payload.currentCurrency)
              THEN [s EXCEPT !.pendingCurrentCurrency = payload.currentCurrency]
              ELSE s
        s2 == IF Truthy(payload.nativeCurrency)
              THEN [s1 EXCEPT !.pendingNativeCurrency = payload.nativeCurrency]
              ELSE s1
    IN  [s2 EXCEPT !.updateStartTime = payload.updateStartTime]

updateCurrencyFailed_keepsPending(s) == s

updateCurrencyFailedReducer(s) ==
    [s EXCEPT !.pendingCurrentCurrency = Null, !.pendingNativeCurrency = Null]

\* The second test reads pendingCurrentCurrency again, after the first
\* branch has set it to null.
updateCurrencyFinishedReducer(s, payload, dateNow) ==
    LET s1 == [s EXCEPT !.conversionDate = dateNow, !.conversionRate = payload]
        s2 == IF Truthy(s1.pendingCurrentCurrency)
              THEN [s1 EXCEPT !.currentCurrency = s1.pendingCurrentCurrency,
                              !.pendingCurrentCurrency = Null]
              ELSE s1
        s3 == IF Truthy(s2.pendingCurrentCurrency)
              THEN [s2 EXCEPT !.nativeCurrency = s2.pendingCurrentCurrency,
                              !.pendingNativeCurrency = Null]
              ELSE s2
    IN  s3

\* dispatch of a plain action: the slice's reducer for its type.  A dispatch
\* that is handed undefined reaches no reducer and leaves the slice as it is.
dispatch(s, action, dateNow) ==
    CASE action.type = "pollingStarted" ->
             pollingStartedReducer(s, action.payload)
      [] action.type = "pollingStopped" -> pollingStoppedReducer(s)
      [] action.type = "pollFinished" ->
             pollFinishedReducer(s, action.payload, dateNow)
      [] action.type = "updateCurrencyStarted" ->
             updateCurrencyStartedReducer(s, action.payload)
      [] action.type = "updateCurrencyFailed" -> updateCurrencyFailedReducer(s)
      [] action.type = "updateCurrencyFinished" ->
             updateCurrencyFinishedReducer(s, action.payload, dateNow)
      [] OTHER -> s

(***************************************************************************)
(* Selectors.                                                              *)
(***************************************************************************)
getPollingStartTime(s) == s.pollingStartTime
getCurrentCurrency(s) == s.currentCurrency
getNativeCurrency(s) == s.nativeCurrency
getPendingOrActiveCurrentCurrency(s) ==
    IF Truthy(s.pendingCurrentCurrency) THEN s.pendingCurrentCurrency
    ELSE getCurrentCurrency(s)
getPendingOrActiveNativeCurrency(s) ==
    IF Truthy(s.pendingNativeCurrency) THEN s.pendingNativeCurrency
    ELSE getNativeCurrency(s)
getUpdateStartTime(s) == s.updateStartTime

\* stop() builds the pollingStopped action and returns nothing
stop == NoAction

(***************************************************************************)
(* Bookkeeping of the model.                                               *)
(***************************************************************************)
\* room for n more fetches, one being kept for each updateCurrency in flight
\* (it runs start() when it settles)
CanIssue(n) == fetchCount + Cardinality(updates) + n <= MaxFetches

\* what the caller of the step sees, and what the step was about:
\* superseded - an updateCurrency call was made after the one that settled
\* restarted  - start() ran while the poll that settled was in flight
\* thrown     - the call ended by throwing
Ev(op, superseded, restarted, thrown, currentCurrency, nativeCurrency) ==
    [op |-> op, superseded |-> superseded, restarted |-> restarted,
     thrown |-> thrown, currentCurrency |-> currentCurrency,
     nativeCurrency |-> nativeCurrency]

Plain(op) == Ev(op, FALSE, FALSE, FALSE, Undefined, Undefined)

CurrencyInit ==
    /\ state = initialState
    /\ polls = {}
    /\ updates = {}
    /\ intervals = {}
    /\ fetchCount = 0
    /\ updateCount = 0
    /\ last = Plain("init")

(***************************************************************************)
(* poll: reads the active currencies, notes fetchStartTime and awaits the  *)
(* fetch.                                                                  *)
(***************************************************************************)
PollCall(s, seq) ==
    [seq |-> seq,
     fetchStartTime |-> now,
     currentCurrency |-> getCurrentCurrency(s),
     nativeCurrency |-> getNativeCurrency(s),
     restarted |-> FALSE]

\* "bail if polling has stopped or restarted"
PollBails(s, p) ==
    \/ getPollingStartTime(s) = UndefinedTime
    \/ getPollingStartTime(s) > p.fetchStartTime

\* the fetch of poll p resolves
PollResolved(p) ==
    /\ UNCHANGED <<swapsVars, quoteCall>>
    /\ p \in polls
    /\ polls' = polls \ {p}
    /\ IF PollBails(state, p)
       THEN /\ UNCHANGED state
            /\ last' = Ev("pollBailed", FALSE, p.restarted, FALSE,
                          Undefined, Undefined)
       ELSE /\ state' = dispatch(state, pollFinished(fetchExchangeRate(p.seq)),
                                 now)
            /\ last' = Ev("pollFinished", FALSE, p.restarted, FALSE,
                          Undefined, Undefined)
    /\ UNCHANGED <<now, updates, intervals, fetchCount, updateCount>>

\* the fetch of poll p rejects: poll throws at the await, nothing is dispatched
PollRejected(p) ==
    /\ UNCHANGED <<swapsVars, quoteCall>>
    /\ p \in polls
    /\ polls' = polls \ {p}
    /\ last' = Ev("pollRejected", FALSE, p.restarted, TRUE, Undefined, Undefined)
    /\ UNCHANGED <<now, state, updates, intervals, fetchCount, updateCount>>

(***************************************************************************)
(* start: the thunk run on slice s (the slice as the dispatches before it  *)
(* in the same step left it).                                              *)
(***************************************************************************)
RunStart(s) ==
    LET started == dispatch(s, pollingStarted(now), now)
    IN  /\ state' = started
        /\ polls' = {[p EXCEPT !.restarted = TRUE] : p \in polls}
                        \cup {PollCall(started, fetchCount + 1)}
        /\ intervals' = intervals \cup
               {[id |-> fetchCount + 1,
                 pollingStartTime |-> now,
                 due |-> now + POLLING_INTERVAL]}
        /\ fetchCount' = fetchCount + 1

\* dispatch(start()) by the application
Start ==
    /\ UNCHANGED <<swapsVars, quoteCall>>
    /\ CanIssue(1)
    /\ RunStart(state)
    /\ last' = Plain("start")
    /\ UNCHANGED <<now, updates, updateCount>>

\* the callback of the interval iv set by start()
IntervalFires(iv) ==
    /\ UNCHANGED <<swapsVars, quoteCall>>
    /\ iv \in intervals
    /\ now >= iv.due
    /\ IF iv.pollingStartTime # getPollingStartTime(state)
       THEN /\ intervals' = intervals \ {iv}
            /\ last' = Plain("intervalCleared")
            /\ UNCHANGED <<polls, fetchCount>>
       ELSE /\ CanIssue(1)
            /\ polls' = polls \cup {PollCall(state, fetchCount + 1)}
            /\ fetchCount' = fetchCount + 1
            /\ intervals' = (intervals \ {iv}) \cup
                   {[iv EXCEPT !.due = now + POLLING_INTERVAL]}
            /\ last' = Plain("intervalPolled")
    /\ UNCHANGED <<now, state, updates, updateCount>>

\* stop() called by the application: what it returns is dispatched nowhere
Stop ==
    /\ UNCHANGED <<swapsVars, quoteCall>>
    /\ state' = dispatch(state, stop, now)
    /\ last' = Plain("stop")
    /\ UNCHANGED <<now, polls, updates, intervals, fetchCount, updateCount>>

\* Date.now() moves on.  Timer callbacks may run late and the handlers compare
\* readings only with =, # and >, so the clock is advanced a whole
\* POLLING_INTERVAL at a time: a shorter advance is this one with the interval
\* callbacks running later.
Tick ==
    /\ UNCHANGED <<swapsVars, quoteCall>>
    /\ (now + POLLING_INTERVAL) \div POLLING_INTERVAL <= MaxTicks
    /\ now' = now + POLLING_INTERVAL
    /\ last' = Plain("tick")
    /\ UNCHANGED <<state, polls, updates, intervals, fetchCount, updateCount>>

(***************************************************************************)
(* updateCurrency({currentCurrency, nativeCurrency}).                      *)
(***************************************************************************)
MissingCurrency_never(currentCurrency, nativeCurrency) == FALSE

\* if (!currentCurrency && !nativeCurrency)
MissingCurrency(currentCurrency, nativeCurrency) ==
    ~Truthy(currentCurrency) /\ ~Truthy(nativeCurrency)

\* a call with neither currency throws before it dispatches anything
UpdateCurrencyMissing(currentCurrency, nativeCurrency) ==
    /\ UNCHANGED <<swapsVars, quoteCall>>
    /\ MissingCurrency(currentCurrency, nativeCurrency)
    /\ last' = Ev("updateCurrencyMissing", FALSE, FALSE, TRUE,
                  currentCurrency, nativeCurrency)
    /\ UNCHANGED <<now, state, polls, updates, intervals, fetchCount,
                   updateCount>>

\* the call up to its await: dispatch(stop()), updateCurrencyStarted, and the
\* fetch for the pending-or-active pair
UpdateCurrency(currentCurrency, nativeCurrency) ==
    /\ UNCHANGED <<swapsVars, quoteCall>>
    /\ ~MissingCurrency(currentCurrency, nativeCurrency)
    /\ updateCount < MaxUpdates
    /\ CanIssue(2)
    /\ LET stopped == dispatch(state, stop, now)
           updateStartTime == now
           started == dispatch(stopped,
                               updateCurrencyStarted(currentCurrency,
                                                     nativeCurrency,
                                                     updateStartTime),
                               now)
       IN  /\ state' = started
           /\ updates' = {[u EXCEPT !.superseded = TRUE] : u \in updates} \cup
                  {[seq |-> fetchCount + 1,
                    updateStartTime |-> updateStartTime,
                    currentCurrency |-> currentCurrency,
                    nativeCurrency |-> nativeCurrency,
                    fetchCurrent |-> getPendingOrActiveCurrentCurrency(started),
                    fetchNative |-> getPendingOrActiveNativeCurrency(started),
                    superseded |-> FALSE]}
    /\ fetchCount' = fetchCount + 1
    /\ updateCount' = updateCount + 1
    /\ last' = Ev("updateCurrencyStarted", FALSE, FALSE, FALSE,
                  currentCurrency, nativeCurrency)
    /\ UNCHANGED <<now, polls, intervals>>

\* "bail if another update has started already"
UpdateReplaced(s, u) == u.updateStartTime # getUpdateStartTime(s)

\* updateReplaced as the catch block finds it: it is assigned after the
\* await, which has thrown
UpdateReplacedInCatch(s, u) == FALSE

RearmsPolling_never(updateReplaced) == FALSE

\* the finally block: start() unless the update was replaced
RearmsPolling(updateReplaced) == ~updateReplaced

\* the fetch of update u resolves
UpdateResolved(u) ==
    /\ UNCHANGED <<swapsVars, quoteCall>>
    /\ u \in updates
    /\ updates' = updates \ {u}
    /\ LET updateReplaced == UpdateReplaced(state, u)
           finished == IF updateReplaced THEN state
                       ELSE dispatch(state,
                                     updateCurrencyFinished(
                                         fetchExchangeRate(u.seq)),
                                     now)
       IN  /\ IF RearmsPolling(updateReplaced)
              THEN RunStart(finished)
              ELSE /\ state' = finished
                   /\ UNCHANGED <<polls, intervals, fetchCount>>
           /\ last' = Ev(IF updateReplaced THEN "updateCurrencyReplaced"
                         ELSE "updateCurrencyFinished",
                         u.superseded, FALSE, FALSE,
                         u.currentCurrency, u.nativeCurrency)
    /\ UNCHANGED <<now, updateCount>>

\* the fetch of update u rejects: catch, rethrow, finally
UpdateRejected(u) ==
    /\ UNCHANGED <<swapsVars, quoteCall>>
    /\ u \in updates
    /\ updates' = updates \ {u}
    /\ LET updateReplaced == UpdateReplacedInCatch(state, u)
           failed == IF updateReplaced THEN state
                     ELSE dispatch(state, updateCurrencyFailed, now)
       IN  /\ IF RearmsPolling(updateReplaced)
              THEN RunStart(failed)
              ELSE /\ state' = failed
                   /\ UNCHANGED <<polls, intervals, fetchCount>>
           /\ last' = Ev("updateCurrencyFailed", u.superseded, FALSE, TRUE,
                         u.currentCurrency, u.nativeCurrency)
    /\ UNCHANGED <<now, updateCount>>

(***************************************************************************)
(* SwapsController: state, setters, quote polling.                         *)
(***************************************************************************)
QUOTE_POLLING_INTERVAL == 50000

\* how many timeouts pollForNewQuotes sets
MaxTimers == 2

\* fetchParams is null or an object; the null object stands for null
NullParams == [params |-> Null, metaData |-> Null]
EmptyObject == "{}"

defaultState ==
    [quotes |-> EmptyObject,
     fetchParams |-> NullParams,
     tokens |-> Null,
     quotesLastFetched |-> Null,
     errorKey |-> Null,
     topAggId |-> Null,
     swapsFeatureIsLive |-> FALSE]

\* BaseController.update: the given fields replace the state's, the rest stay
update(s, partial) ==
    [f \in DOMAIN s |-> IF f \in DOMAIN partial THEN partial[f] ELSE s[f]]

clearHandle_noop(h, tm) == tm

\* clearTimeout of this.handle, when it is set
clearHandle(h, tm) == IF h # 0 THEN {t \in tm : t.id # h} ELSE tm

SwapsEv(op, fetched) == [op |-> op, fetched |-> fetched]

\* the controller as constructed, with the partial state it was given
SwapsInit ==
    /\ \E initial \in [topAggId : {Null, "agg1"}, quotesLastFetched : {Null, "date1"}] :
           swapsState = update(defaultState, initial)
    /\ handle = 0
    /\ timers = {}
    /\ timerCount = 0
    /\ swapsLast = SwapsEv("init", FALSE)

setSwapsTokens(newTokens) ==
    /\ UNCHANGED <<currencyVars, quoteCall>>
    /\ swapsState' = update(swapsState, [tokens |-> newTokens])
    /\ swapsLast' = SwapsEv("setSwapsTokens", FALSE)
    /\ UNCHANGED <<now, handle, timers, timerCount>>

setSwapsErrorKey(newErrorKey) ==
    /\ UNCHANGED <<currencyVars, quoteCall>>
    /\ swapsState' = update(swapsState, [errorKey |-> newErrorKey])
    /\ swapsLast' = SwapsEv("setSwapsErrorKey", FALSE)
    /\ UNCHANGED <<now, handle, timers, timerCount>>

setQuotesLastFetched(quotesLastFetched) ==
    /\ UNCHANGED <<currencyVars, quoteCall>>
    /\ swapsState' = update(swapsState, [quotes |-> quotesLastFetched])
    /\ swapsLast' = SwapsEv("setQuotesLastFetched", FALSE)
    /\ UNCHANGED <<now, handle, timers, timerCount>>

setSwapsLiveness(isLive) ==
    /\ UNCHANGED <<currencyVars, quoteCall>>
    /\ swapsState' = update(swapsState, [swapsFeatureIsLive |-> isLive])
    /\ swapsLast' = SwapsEv("setSwapsLiveness", FALSE)
    /\ UNCHANGED <<now, handle, timers, timerCount>>

\* fetchAndSetQuotes run on state s with timeouts tm: what it leaves, and
\* whether it got past its guard on fetchParams
fetchAndSetQuotes(s, tm, fetchParams, fetchParamsMetaData, isPolledRequest) ==
    IF fetchParams = NullParams
    THEN [state |-> s, timers |-> tm, fetched |-> FALSE]
    ELSE LET cleared == clearHandle(handle, tm)
             s1 == IF ~isPolledRequest THEN update(s, [errorKey |-> Null])
                   ELSE s
             s2 == update(s1, [fetchParams |->
                                   [fetchParams EXCEPT
                                       !.metaData = fetchParamsMetaData]])
         IN  [state |-> s2, timers |-> cleared, fetched |-> TRUE]

pollForNewQuotes ==
    /\ UNCHANGED <<currencyVars, quoteCall>>
    /\ timerCount < MaxTimers
    /\ LET cleared == clearHandle(handle, timers)
           run == fetchAndSetQuotes(swapsState, cleared, NullParams,
                                    EmptyObject, TRUE)
       IN  /\ swapsState' = run.state
           /\ timers' = run.timers \cup
                  {[id |-> timerCount + 1, due |-> now + QUOTE_POLLING_INTERVAL]}
           /\ handle' = timerCount + 1
           /\ timerCount' = timerCount + 1
           /\ swapsLast' = SwapsEv("pollForNewQuotes", run.fetched)
    /\ UNCHANGED now

\* the callback of the timeout t set by pollForNewQuotes
QuoteTimerFires(t) ==
    /\ UNCHANGED <<currencyVars, quoteCall>>
    /\ t \in timers
    /\ now >= t.due
    /\ LET run == fetchAndSetQuotes(swapsState, timers \ {t}, NullParams,
                                    EmptyObject, TRUE)
       IN  /\ swapsState' = run.state
           /\ timers' = run.timers
           /\ swapsLast' = SwapsEv("quoteTimerFired", run.fetched)
    /\ UNCHANGED <<now, handle, timerCount>>

stopPollingForQuotes ==
    /\ UNCHANGED <<currencyVars, quoteCall>>
    /\ timers' = clearHandle(handle, timers)
    /\ swapsLast' = SwapsEv("stopPollingForQuotes", FALSE)
    /\ UNCHANGED <<now, swapsState, handle, timerCount>>

\* fetchAndSetQuotes called by the application
FetchAndSetQuotes(fetchParams, fetchParamsMetaData, isPolledRequest) ==
    /\ UNCHANGED <<currencyVars, quoteCall>>
    /\ LET run == fetchAndSetQuotes(swapsState, timers, fetchParams,
                                    fetchParamsMetaData, isPolledRequest)
       IN  /\ swapsState' = run.state
           /\ timers' = run.timers
           /\ swapsLast' = SwapsEv("fetchAndSetQuotes", run.fetched)
    /\ UNCHANGED <<now, handle, timerCount>>

safeRefetchQuotes ==
    /\ UNCHANGED <<currencyVars, quoteCall>>
    /\ LET fetchParams == swapsState.fetchParams
           run == IF handle = 0 /\ fetchParams # NullParams
                  THEN fetchAndSetQuotes(swapsState, timers, fetchParams,
                                         EmptyObject, FALSE)
                  ELSE [state |-> swapsState, timers |-> timers,
                        fetched |-> FALSE]
       IN  /\ swapsState' = run.state
           /\ timers' = run.timers
           /\ swapsLast' = SwapsEv("safeRefetchQuotes", run.fetched)
    /\ UNCHANGED <<now, handle, timerCount>>

resetPostFetchState ==
    /\ UNCHANGED <<currencyVars, quoteCall>>
    /\ LET resetTokens == swapsState.tokens
           resetFetchParams == swapsState.fetchParams
           resetSwapsFeatureIsLive == swapsState.swapsFeatureIsLive
           \* { ...this.state, tokens, fetchParams, swapsFeatureIsLive }
           spread == update(swapsState,
                            [tokens |-> resetTokens,
                             fetchParams |-> resetFetchParams,
                             swapsFeatureIsLive |-> resetSwapsFeatureIsLive])
       IN  swapsState' = update(swapsState, spread)
    /\ timers' = clearHandle(handle, timers)
    /\ swapsLast' = SwapsEv("resetPostFetchState", FALSE)
    /\ UNCHANGED <<now, handle, timerCount>>

\* Date.now() moves on by one quote-polling interval
SwapsTick ==
    /\ UNCHANGED <<currencyVars, quoteCall>>
    /\ (now + QUOTE_POLLING_INTERVAL) \div QUOTE_POLLING_INTERVAL <= MaxTicks
    /\ now' = now + QUOTE_POLLING_INTERVAL
    /\ swapsLast' = SwapsEv("tick", FALSE)
    /\ UNCHANGED <<swapsState, handle, timers, timerCount>>

FetchParamsArgs == {NullParams, [params |-> "p1", metaData |-> Undefined]}

SwapsNext ==
    \/ SwapsTick
    \/ \E t \in {Null, "tokens1"} : setSwapsTokens(t)
    \/ \E e \in {Null, "err1"} : setSwapsErrorKey(e)
    \/ \E q \in {EmptyObject, "quotes1"} : setQuotesLastFetched(q)
    \/ \E b \in BOOLEAN : setSwapsLiveness(b)
    \/ pollForNewQuotes
    \/ \E t \in timers : QuoteTimerFires(t)
    \/ stopPollingForQuotes
    \/ \E fp \in FetchParamsArgs : \E md \in {EmptyObject, "m1"} :
           \E polled \in BOOLEAN : FetchAndSetQuotes(fp, md, polled)
    \/ safeRefetchQuotes
    \/ resetPostFetchState

(***************************************************************************)
(* getBestQuoteAndEthValues.                                               *)
(*                                                                         *)
(* A BigNumber is held as [w, f]: the value w + f * 10^-18, 0 <= f < 10^18.*)
(* Hex and decimal strings are held as the integers they spell; -1 stands  *)
(* for a field that is absent.                                             *)
(***************************************************************************)
ETH_SWAPS_TOKEN_ADDRESS == "0x0000000000000000000000000000000000000000"
MAX_GAS_LIMIT == 2500000
Absent == -1

\* how many quotes the quotes map holds
MaxQuotes == 2

Big(n) == [w |-> n, f |-> 0]
BigMinus(a, n) == [a EXCEPT !.w = a.w - n]
BigTimes(n, a) == [w |-> n * a.w, f |-> n * a.f]
BigGt(a, b) == a.w > b.w \/ (a.w = b.w /\ a.f > b.f)

\* new BigNumber(x, 16) for a BigNumber x: the constructor takes String(x),
\* the decimal digits of x, and reads them in base 16
RECURSIVE DecimalDigitsAsHex(_)
DecimalDigitsAsHex(n) ==
    IF n < 10 THEN n ELSE 16 * DecimalDigitsAsHex(n \div 10) + (n % 10)

\* calcTokenAmount(value, decimals) = value / 10^decimals, for the decimals
\* the model's tokens have (0 and 18) and value < 10^18
calcTokenAmount(value, decimals) ==
    IF decimals = 0 THEN [w |-> value, f |-> 0] ELSE [w |-> 0, f |-> value]

\* the body of the forEach for one quote
QuoteValues(quote, usedGasPrice, contractExchangeRates) ==
    LET tradeGasLimitForCalculation ==
            IF quote.gasEstimate # Absent THEN quote.gasEstimate
            ELSE IF quote.averageGas # 0 THEN quote.averageGas
            ELSE MAX_GAS_LIMIT
        totalGasLimitForCalculation ==
            tradeGasLimitForCalculation +
                (IF quote.approvalNeededGas # Absent
                 THEN quote.approvalNeededGas ELSE 0)
        gasTotalInWeiHex == totalGasLimitForCalculation * usedGasPrice
        totalWeiCost == DecimalDigitsAsHex(gasTotalInWeiHex) + quote.tradeValue
        ethFee == IF quote.sourceToken = ETH_SWAPS_TOKEN_ADDRESS
                  THEN totalWeiCost - quote.sourceAmount
                  ELSE totalWeiCost
        tokenConversionRate == contractExchangeRates[quote.destinationToken]
        ethValueOfTrade ==
            IF quote.destinationToken = ETH_SWAPS_TOKEN_ADDRESS
            THEN BigMinus(calcTokenAmount(quote.destinationAmount, 18),
                          totalWeiCost)
            ELSE BigMinus(
                     BigTimes(IF tokenConversionRate # 0
                              THEN tokenConversionRate ELSE 1,
                              calcTokenAmount(quote.destinationAmount,
                                              quote.decimals)),
                     IF tokenConversionRate # 0 THEN totalWeiCost ELSE 0)
    IN  [ethValueOfTrade |-> ethValueOfTrade, ethFee |-> ethFee]

\* the forEach over Object.values(quotes), from quote i on
RECURSIVE BestFrom(_, _, _, _, _)
BestFrom(quotes, i, usedGasPrice, contractExchangeRates, acc) ==
    IF i > Len(quotes) THEN acc
    ELSE LET quote == quotes[i]
             v == QuoteValues(quote, usedGasPrice, contractExchangeRates)
             pushed == [acc EXCEPT
                           !.allEthTradeValues = Append(@, v.ethValueOfTrade),
                           !.allEthFees = Append(@, v.ethFee)]
             next == IF BigGt(v.ethValueOfTrade, acc.ethTradeValueOfBestQuote)
                     THEN [pushed EXCEPT
                              !.topAggId = quote.aggregator,
                              !.ethTradeValueOfBestQuote = v.ethValueOfTrade,
                              !.ethFeeForBestQuote = v.ethFee]
                     ELSE pushed
         IN  BestFrom(quotes, i + 1, usedGasPrice, contractExchangeRates, next)

\* quotes is Object.values of the map, each quote under its aggregator's key
getBestQuoteAndEthValues(quotes, customGasPrice, gasPrice, contractExchangeRates) ==
    LET usedGasPrice == IF customGasPrice # Absent THEN customGasPrice
                        ELSE gasPrice
        acc == BestFrom(quotes, 1, usedGasPrice, contractExchangeRates,
                        [topAggId |-> "",
                         ethTradeValueOfBestQuote |-> Big(0),
                         ethFeeForBestQuote |-> 0,
                         allEthTradeValues |-> <<>>,
                         allEthFees |-> <<>>])
        keyed == {i \in 1..Len(quotes) : quotes[i].aggregator = acc.topAggId}
    IN  IF keyed = {}
        \* quotes[topAggId] is undefined: reading its destinationToken throws
        THEN [thrown |-> TRUE]
        ELSE LET top == quotes[CHOOSE i \in keyed : TRUE]
             IN  [thrown |-> FALSE,
                  topAggId |-> acc.topAggId,
                  isBest |-> \/ top.destinationToken = ETH_SWAPS_TOKEN_ADDRESS
                             \/ contractExchangeRates[top.destinationToken] # 0,
                  ethTradeValueOfBestQuote |-> acc.ethTradeValueOfBestQuote,
                  ethFeeForBestQuote |-> acc.ethFeeForBestQuote,
                  allEthTradeValues |-> acc.allEthTradeValues,
                  allEthFees |-> acc.allEthFees]

TokenAddress == "0xtoken"

\* the quotes an aggregator may answer with; averageGas is left out where
\* gasEstimate makes it unread, and ETH has 18 decimals
QuoteShapes ==
    {q \in [approvalNeededGas : {Absent, 1},
            averageGas : {0, 3},
            destinationAmount : {0, 40},
            destinationToken : {ETH_SWAPS_TOKEN_ADDRESS, TokenAddress},
            decimals : {0, 18},
            gasEstimate : {Absent, 0},
            sourceAmount : {1},
            sourceToken : {ETH_SWAPS_TOKEN_ADDRESS, TokenAddress},
            tradeValue : {0, 1}] :
        /\ q.gasEstimate # Absent => q.averageGas = 0
        /\ q.destinationToken = ETH_SWAPS_TOKEN_ADDRESS => q.decimals = 18}

Aggregators == <<"agg1", "agg2", "agg3">>

\* the i-th quote of the map is the one of Aggregators[i]
Named(shapes) ==
    [i \in 1..Len(shapes) |->
        [aggregator |-> Aggregators[i],
         approvalNeededGas |-> shapes[i].approvalNeededGas,
         averageGas |-> shapes[i].averageGas,
         destinationAmount |-> shapes[i].destinationAmount,
         destinationToken |-> shapes[i].destinationToken,
         decimals |-> shapes[i].decimals,
         gasEstimate |-> shapes[i].gasEstimate,
         sourceAmount |-> shapes[i].sourceAmount,
         sourceToken |-> shapes[i].sourceToken,
         tradeValue |-> shapes[i].tradeValue]]

\* a call of getBestQuoteAndEthValues on a non-empty quotes map
GetBestQuoteAndEthValues(shapes, customGasPrice, tokenRate) ==
    /\ LET quotes == Named(shapes)
           contractExchangeRates ==
               [t \in {ETH_SWAPS_TOKEN_ADDRESS, TokenAddress} |->
                   IF t = TokenAddress THEN tokenRate ELSE 0]
       IN  quoteCall' =
               [called |-> TRUE,
                quotes |-> quotes,
                contractExchangeRates |-> contractExchangeRates,
                usedGasPrice |-> IF customGasPrice # Absent
                                 THEN customGasPrice ELSE 2,
                result |-> getBestQuoteAndEthValues(quotes, customGasPrice, 2,
                                                    contractExchangeRates)]
    /\ UNCHANGED <<now, currencyVars, swapsVars>>

\* one call is looked at
QuoteNext ==
    /\ ~quoteCall.called
    /\ \E n \in 1..MaxQuotes : \E shapes \in [1..n -> QuoteShapes] :
           \E customGasPrice \in {Absent, 1} : \E tokenRate \in {0, 2} :
               GetBestQuoteAndEthValues(shapes, customGasPrice, tokenRate)

(***************************************************************************)
(* The specifications.                                                     *)
(***************************************************************************)
QuoteIdle == quoteCall = [called |-> FALSE]

\* a controller constructed with no initial state
SwapsIdle ==
    /\ swapsState = defaultState
    /\ handle = 0
    /\ timers = {}
    /\ timerCount = 0
    /\ swapsLast = SwapsEv("init", FALSE)

Init == now = 0 /\ CurrencyInit /\ SwapsIdle /\ QuoteIdle

Next ==
    \/ Tick
    \/ Start
    \/ Stop
    \/ \E iv \in intervals : IntervalFires(iv)
    \/ \E p \in polls : PollResolved(p)
    \/ \E p \in polls : PollRejected(p)
    \/ \E c \in CurrentArgs : \E n \in NativeArgs : UpdateCurrencyMissing(c, n)
    \/ \E c \in CurrentArgs : \E n \in NativeArgs : UpdateCurrency(c, n)
    \/ \E u \in updates : UpdateResolved(u)
    \/ \E u \in updates : UpdateRejected(u)

\* the currency-rate controller
Spec == Init /\ [][Next]_vars

\* the swaps controller
SwapsSpecInit == now = 0 /\ CurrencyInit /\ SwapsInit /\ QuoteIdle

SwapsSpec == SwapsSpecInit /\ [][SwapsNext]_vars

\* getBestQuoteAndEthValues, called on the quotes maps of the model
QuoteSpec == Init /\ [][QuoteNext]_vars

(***************************************************************************)
(* The claims.                                                             *)
(***************************************************************************)
UpdateSettled == {"updateCurrencyFinished", "updateCurrencyReplaced",
                  "updateCurrencyFailed"}

\* polling is on: pollingStartTime is set and the interval of that start() lives
PollingActive ==
    /\ state.pollingStartTime # UndefinedTime
    /\ \E iv \in intervals : iv.pollingStartTime = state.pollingStartTime

\* C1: a stale fetch result never overwrites the result of a more recent
\* fetch.  Each fetch answers with its issue number, so the stored
\* conversionRate names the fetch it came from: it must never go back to that
\* of an earlier fetch.
C1_NoStaleOverwrite ==
    [][state'.conversionRate >= state.conversionRate]_vars

\* C2: for every non-empty quotes map getBestQuoteAndEthValues returns a best
\* quote: topAggId is the aggregator of a quote whose ethValueOfTrade is the
\* maximum over all quotes, and the two best-quote values are that quote's
\* value and fee, also when no quote's value is above zero.
C2_BestQuoteIsMaximum ==
    quoteCall.called =>
        /\ ~quoteCall.result.thrown
        /\ \E i \in 1..Len(quoteCall.quotes) :
               LET v(j) == QuoteValues(quoteCall.quotes[j],
                                       quoteCall.usedGasPrice,
                                       quoteCall.contractExchangeRates)
               IN  /\ quoteCall.result.topAggId = quoteCall.quotes[i].aggregator
                   /\ quoteCall.result.ethTradeValueOfBestQuote
                          = v(i).ethValueOfTrade
                   /\ quoteCall.result.ethFeeForBestQuote = v(i).ethFee
                   /\ \A j \in 1..Len(quoteCall.quotes) :
                          ~BigGt(v(j).ethValueOfTrade, v(i).ethValueOfTrade)

\* C3: once updateCurrencyFinished has been dispatched for an update that was
\* not superseded, both pending currencies are null.
C3_PendingClearedOnFinish ==
    (last.op = "updateCurrencyFinished" /\ ~last.superseded) =>
        /\ state.pendingCurrentCurrency = Null
        /\ state.pendingNativeCurrency = Null

\* C4: a successful update that was not superseded makes the currencies it was
\* given the active ones, and leaves a currency it was not given as it was.
C4_SwitchedToGivenCurrencies ==
    [][(last'.op = "updateCurrencyFinished" /\ ~last'.superseded) =>
          /\ state'.currentCurrency =
                 IF Truthy(last'.currentCurrency) THEN last'.currentCurrency
                 ELSE state.currentCurrency
          /\ state'.nativeCurrency =
                 IF Truthy(last'.nativeCurrency) THEN last'.nativeCurrency
                 ELSE state.nativeCurrency]_vars

C6_PollingRearmed ==
    /\ (last.op \in UpdateSettled /\ ~last.superseded) =>
           /\ state.pollingStartTime = now
           /\ \E p \in polls :
                  p.seq = fetchCount /\ p.fetchStartTime = now /\ ~p.restarted
           /\ \E iv \in intervals :
                  /\ iv.id = fetchCount
                  /\ iv.pollingStartTime = state.pollingStartTime
                  /\ iv.due = now + POLLING_INTERVAL
    /\ (updateCount > 0 /\ updates = {}) => PollingActive

\* two calls have been made and have settled, the later one by failing
C6_Witness ==
    /\ last.op = "updateCurrencyFailed"
    /\ ~last.superseded
    /\ updateCount > 1
    /\ updates = {}
    /\ PollingActive

\* C7: after stop(), called by the application or at the start of
\* updateCurrency, pollingStartTime is undefined.
C7_StopClearsPollingStartTime ==
    last.op \in {"stop", "updateCurrencyStarted"} =>
        state.pollingStartTime = UndefinedTime

\* C8: an update that a later updateCurrency call has superseded changes
\* nothing when its fetch settles: the slice stays as it is and polling is not
\* restarted.
C8_SupersededUpdateDiscarded ==
    [][(last'.op \in UpdateSettled /\ last'.superseded) =>
          /\ state' = state
          /\ polls' = polls
          /\ intervals' = intervals]_vars

\* C9: a poll during whose fetch start() ran again does not dispatch
\* pollFinished.
C9_RestartedPollBails ==
    last.op = "pollFinished" => ~last.restarted

\* C10: while fetchParams is set, the callback of the quote-polling timer
\* re-fetches (fetchAndSetQuotes gets past its guard) and the timer is set
\* again for the next interval.
C10_QuotePollingRepeats ==
    (swapsLast.op = "quoteTimerFired" /\ swapsState.fetchParams # NullParams) =>
        /\ swapsLast.fetched
        /\ \E t \in timers : t.id = handle

\* C11: an updateCurrency call given neither currency throws before anything
\* happens: the slice, the fetches in flight, the updates in flight and the
\* polling intervals are as they were, and no fetch is issued.
C11_MissingCurrencyHasNoEffect ==
    [][(/\ last'.op \in {"updateCurrencyMissing", "updateCurrencyStarted"}
        /\ ~Truthy(last'.currentCurrency)
        /\ ~Truthy(last'.nativeCurrency)) =>
          /\ last'.thrown
          /\ state' = state
          /\ polls' = polls
          /\ updates' = updates
          /\ intervals' = intervals
          /\ fetchCount' = fetchCount]_vars

\* the call was made while polling was on, a poll and another update in flight
C11_Witness ==
    /\ last.op = "updateCurrencyMissing"
    /\ last.thrown
    /\ PollingActive
    /\ polls # {}
    /\ updates # {}
    /\ state.pendingCurrentCurrency # Null

\* the operations that cancel a pending poll: stopPollingForQuotes,
\* resetPostFetchState, and a fetchAndSetQuotes that got past its guard on
\* fetchParams (called directly or by safeRefetchQuotes)
CancelsPendingPoll(ev) ==
    \/ ev.op \in {"stopPollingForQuotes", "resetPostFetchState"}
    \/ ev.op \in {"fetchAndSetQuotes", "safeRefetchQuotes"} /\ ev.fetched

\* C12: after a fetchAndSetQuotes request with non-null fetchParams, after
\* stopPollingForQuotes() and after resetPostFetchState() no timer callback
\* is pending, so none scheduled earlier can run; at any time the only timer
\* that can be pending is the one this.handle names.
C12_PendingPollCancelled ==
    /\ CancelsPendingPoll(swapsLast) => timers = {}
    /\ \A t \in timers : t.id = handle

\* a request made before the timer set by pollForNewQuotes was due: the timer
\* was pending and is gone
C12_Witness ==
    /\ swapsLast.op = "fetchAndSetQuotes"
    /\ swapsLast.fetched
    /\ handle # 0
    /\ timerCount > 0
    /\ now < QUOTE_POLLING_INTERVAL
    /\ timers = {}

\* C13: safeRefetchQuotes() re-issues fetchAndSetQuotes exactly when
\* fetchParams is non-null and no poll timer is pending, so also after the
\* timer was cancelled or has fired.  (Neither outcome of the call changes
\* whether fetchParams is null or whether a timer is pending.)
C13_SafeRefetchWhenNoTimerPending ==
    swapsLast.op = "safeRefetchQuotes" =>
        (swapsLast.fetched <=>
             (swapsState.fetchParams # NullParams /\ timers = {}))

\* C14: resetPostFetchState() keeps tokens, fetchParams and
\* swapsFeatureIsLive and puts quotes, quotesLastFetched, errorKey and
\* topAggId back at their defaults.
C14_ResetPostFetchState ==
    [][swapsLast'.op = "resetPostFetchState" =>
          /\ swapsState'.tokens = swapsState.tokens
          /\ swapsState'.fetchParams = swapsState.fetchParams
          /\ swapsState'.swapsFeatureIsLive = swapsState.swapsFeatureIsLive
          /\ swapsState'.quotes = defaultState.quotes
          /\ swapsState'.quotesLastFetched = defaultState.quotesLastFetched
          /\ swapsState'.errorKey = defaultState.errorKey
          /\ swapsState'.topAggId = defaultState.topAggId]_vars

\* the field each setter is named after
SetterField ==
    [setSwapsTokens |-> "tokens",
     setSwapsErrorKey |-> "errorKey",
     setQuotesLastFetched |-> "quotesLastFetched",
     setSwapsLiveness |-> "swapsFeatureIsLive"]

\* C15: a setter leaves every SwapsState field but the one it is named after,
\* and the poll timer, as they were.
C15_SettersChangeOnlyTheirField ==
    [][swapsLast'.op \in DOMAIN SetterField =>
          /\ \A f \in DOMAIN swapsState \ {SetterField[swapsLast'.op]} :
                 swapsState'[f] = swapsState[f]
          /\ handle' = handle
          /\ timers' = timers]_vars

====
